---- MODULE Spec2Model ----
(***************************************************************************)
(* Event participation and ride matching (app/services/*.py, app/main.py). *)
(*                                                                         *)
(* One event row, its participant rows and its ride-match rows live in a   *)
(* shared relational store (PostgreSQL, READ COMMITTED).  Every mutating   *)
(* request runs in one transaction (`with session.begin()` in main.py).    *)
(* A transaction is modelled statement by statement: one action per SQL    *)
(* statement together with the Python that follows it up to the next       *)
(* statement; the last statement of a request is taken together with its   *)
(* COMMIT.  SELECT ... FOR UPDATE and UPDATE take row locks that are held  *)
(* until the transaction ends; a plain SELECT reads the committed rows     *)
(* overlaid with the transaction's own writes.  An HTTPException (or any   *)
(* other exception) leaves the `with session.begin()` block and rolls the  *)
(* transaction back.                                                       *)
(*                                                                         *)
(* Participant and match ids are the positions in `parts` and `matches`,   *)
(* which are kept in creation order (created_at ascending).  The free-text *)
(* columns pickup_area and notes are read by no condition of the program   *)
(* and are left out.                                                       *)
(*                                                                         *)
(* The read-only handlers suggestions and event_stats write nothing and    *)
(* take no lock; they are modelled as functions of the committed rows they *)
(* read (Suggestions, EventStats), on one snapshot of those rows.          *)
(***************************************************************************)
EXTENDS Integers, Sequences, FiniteSets, TLC

(* ---------------------------------------------------------------- bounds *)
MaxOps == 3          \* service calls started after Init
MaxJoinedOps == 2    \* service calls started after InitJoined
MaxSeats == 2        \* largest seats_offered a request carries
MaxCapacity == 2     \* largest event capacity
MaxMatches == 2      \* ride-match rows
MaxPlanned == 5      \* participant rows the suggestion planner is run on

Users == {"u1", "u2", "u3"}
Organizers == {"u1"} \* the users that create events
Txns == {1, 2}       \* concurrently open transactions (sessions)

(* ----------------------------------------------------------------- enums *)
EventJoinPolicy == {"OPEN", "APPROVAL", "OPEN_UNTIL_CAPACITY_THEN_APPROVAL"}
EventStatus == {"DRAFT", "PUBLISHED", "CANCELED"}
ParticipationStatus == {"APPROVED", "PENDING", "REJECTED", "CANCELED"}
RideMode == {"NONE", "NEED", "OFFER"}
RideMatchStatus == {"PROPOSED", "ACCEPTED", "REJECTED", "CANCELED"}

(* Optional values: <<>> is None, <<x>> is x. *)
Opt(S) == {<<>>} \cup {<<x>> : x \in S}
None == <<>>
Some(x) == <<x>>

Seats == 0..MaxSeats
PartIds == 1..Cardinality(Users)
MatchIds == 1..MaxMatches

VARIABLES
    event,      \* the event row, or NoEvent
    parts,      \* committed event_participants rows, in creation order
    matches,    \* committed ride_matches rows, in creation order
    tx,         \* the open transactions
    budget,     \* service calls that may still start
    outcome     \* what the step just taken ended with, or returned

vars == <<event, parts, matches, tx, budget, outcome>>

NoEvent == [exists |-> FALSE, created_by |-> "u1", capacity |-> None,
            join_policy |-> "OPEN", status |-> "DRAFT"]

(* Row locks. *)
ELock == <<"E", 0>>
PLock(i) == <<"P", i>>
MLock(j) == <<"M", j>>

IdleTx == [op |-> "idle", pc |-> "idle", user |-> "u1", pid |-> 0, rid |-> 0,
           mid |-> 0, mode |-> "NONE", seats |-> 0, next |-> "NONE",
           locks |-> {}, wp |-> <<>>, wm |-> <<>>]

(* ------------------------------------------------------ transaction view *)
(* Rows as transaction t reads them: committed rows, overlaid by its own    *)
(* flushed writes.                                                          *)
PView(t) == [i \in DOMAIN parts |->
                IF i \in DOMAIN tx[t].wp THEN tx[t].wp[i] ELSE parts[i]]
MView(t) == [j \in DOMAIN matches |->
                IF j \in DOMAIN tx[t].wm THEN tx[t].wm[j] ELSE matches[j]]

HeldByOther(t, l) == \E u \in Txns \ {t} : l \in tx[u].locks
CanLock(t, L) == \A l \in L : ~HeldByOther(t, l)

(* ------------------------------------------------------------ pure parts *)
\* participants.py:13 _normalize_ride
NormalizeRide(ride_mode, seats_opt) ==
    LET s == IF seats_opt = None THEN 0 ELSE seats_opt[1] IN
    IF ride_mode = "OFFER"
    THEN IF s < 1 THEN [ok |-> FALSE, mode |-> ride_mode, seats |-> s]
                  ELSE [ok |-> TRUE, mode |-> ride_mode, seats |-> s]
    ELSE IF s # 0 THEN [ok |-> FALSE, mode |-> ride_mode, seats |-> s]
                  ELSE [ok |-> TRUE, mode |-> ride_mode, seats |-> 0]

\* participants.py:23 _count_approved
CountApproved(ps) == Cardinality({i \in DOMAIN ps : ps[i].status = "APPROVED"})

\* is_full with > in place of >=
IsFullOffByOne(ev, approved_count) ==
    ev.capacity # None /\ approved_count > ev.capacity[1]

\* participants.py:36 is_full
IsFull(ev, approved_count) ==
    ev.capacity # None /\ approved_count >= ev.capacity[1]

\* _resolve_join_status without the test of the event's status
ResolveAnyEventStatus(ev, approved_count) ==
    IF ev.join_policy = "OPEN"
    THEN IF IsFull(ev, approved_count) THEN "Capacity" ELSE "APPROVED"
    ELSE IF ev.join_policy = "APPROVAL" THEN "PENDING"
    ELSE IF IsFull(ev, approved_count) THEN "PENDING" ELSE "APPROVED"

\* _resolve_join_status refusing a full event under APPROVAL too
ResolveApprovalCapped(ev, approved_count) ==
    IF ev.status # "PUBLISHED" THEN "InvalidState"
    ELSE IF ev.join_policy = "OPEN_UNTIL_CAPACITY_THEN_APPROVAL"
         THEN IF IsFull(ev, approved_count) THEN "PENDING" ELSE "APPROVED"
    ELSE IF IsFull(ev, approved_count) THEN "Capacity"
    ELSE IF ev.join_policy = "OPEN" THEN "APPROVED" ELSE "PENDING"

\* _resolve_join_status treating OPEN_UNTIL_CAPACITY_THEN_APPROVAL as OPEN
ResolveUntilAsOpen(ev, approved_count) ==
    IF ev.status # "PUBLISHED" THEN "InvalidState"
    ELSE IF ev.join_policy = "APPROVAL" THEN "PENDING"
    ELSE IF IsFull(ev, approved_count) THEN "Capacity" ELSE "APPROVED"

\* participants.py:30 _resolve_join_status: the status, or the error raised
ResolveJoinStatus(ev, approved_count) ==
    IF ev.status # "PUBLISHED" THEN "InvalidState"
    ELSE IF ev.status = "CANCELED" THEN "InvalidState"
    ELSE IF ev.join_policy = "OPEN"
         THEN IF IsFull(ev, approved_count) THEN "Capacity" ELSE "APPROVED"
    ELSE IF ev.join_policy = "APPROVAL" THEN "PENDING"
    ELSE IF ev.join_policy = "OPEN_UNTIL_CAPACITY_THEN_APPROVAL"
         THEN IF IsFull(ev, approved_count) THEN "PENDING" ELSE "APPROVED"
    ELSE "PENDING"

\* a lookup that never finds the row
FindNothing(ps, user) == 0

\* the row of (event, user): its id, or 0 when there is none
FindParticipant(ps, user) ==
    IF \E i \in DOMAIN ps : ps[i].user = user
    THEN CHOOSE i \in DOMAIN ps : ps[i].user = user
    ELSE 0

\* the cascade matching the participant as driver only
ActiveMatchesAsDriver(ms, pid) ==
    {j \in DOMAIN ms : /\ ms[j].status \in {"PROPOSED", "ACCEPTED"}
                       /\ ms[j].driver = pid}

\* the cascade matching PROPOSED matches only
ProposedMatchesOf(ms, pid) ==
    {j \in DOMAIN ms : /\ ms[j].status = "PROPOSED"
                       /\ (ms[j].driver = pid \/ ms[j].rider = pid)}

\* the WHERE clause of the cascade UPDATE (participants.py:110, :163)
ActiveMatchesOf(ms, pid) ==
    {j \in DOMAIN ms : /\ ms[j].status \in {"PROPOSED", "ACCEPTED"}
                       /\ (ms[j].driver = pid \/ ms[j].rider = pid)}

\* the count taking the PROPOSED matches of the driver as well
AcceptedOrProposedCount(ms, driver_pid) ==
    Cardinality({j \in DOMAIN ms : ms[j].driver = driver_pid
                                   /\ ms[j].status \in {"ACCEPTED", "PROPOSED"}})

\* rides.py:9 _accepted_count
AcceptedCount(ms, driver_pid) ==
    Cardinality({j \in DOMAIN ms : ms[j].driver = driver_pid
                                   /\ ms[j].status = "ACCEPTED"})

(* ----------------------------------------------------- ending a request *)
NoOutcome == [op |-> "none", res |-> "none"]

\* the failure leaves the rows written so far in the store
AbortKeepingWrites(t, op, err) ==
    /\ tx' = [tx EXCEPT ![t] = IdleTx]
    /\ outcome' = [op |-> op, res |-> err]
    /\ parts' = PView(t)
    /\ matches' = MView(t)
    /\ UNCHANGED event

\* the transaction rolls back: its writes are dropped, its locks released
Abort(t, op, err) ==
    /\ tx' = [tx EXCEPT ![t] = IdleTx]
    /\ outcome' = [op |-> op, res |-> err]
    /\ UNCHANGED <<event, parts, matches>>

\* COMMIT with the rows ps and ms
Commit(t, op, ps, ms) ==
    /\ parts' = ps
    /\ matches' = ms
    /\ tx' = [tx EXCEPT ![t] = IdleTx]
    /\ outcome' = [op |-> op, res |-> "ok"]
    /\ UNCHANGED event

\* the transaction goes on to its next statement
Goto(t, new) ==
    /\ tx' = [tx EXCEPT ![t] = new]
    /\ outcome' = NoOutcome
    /\ UNCHANGED <<event, parts, matches>>

\* a request starts in the lowest free session
CanBegin(t) ==
    /\ budget > 0
    /\ tx[t].op = "idle"
    /\ \A u \in Txns : u < t => tx[u].op # "idle"

(* ---------------------------------------------------------------- events *)
\* main.py:24 create_event
CreateEvent(u, cap, policy) ==
    /\ ~event.exists
    /\ u \in Organizers
    /\ event' = [exists |-> TRUE, created_by |-> u, capacity |-> cap,
                 join_policy |-> policy, status |-> "DRAFT"]
    /\ outcome' = [op |-> "event", res |-> "ok"]
    /\ UNCHANGED <<parts, matches, tx, budget>>

\* main.py:44 publish_event
PublishEvent(u) ==
    /\ event.exists
    /\ event.created_by = u
    /\ event.status # "PUBLISHED"
    /\ \A t \in Txns : ELock \notin tx[t].locks
    /\ event' = [event EXCEPT !.status = "PUBLISHED"]
    /\ outcome' = [op |-> "event", res |-> "ok"]
    /\ UNCHANGED <<parts, matches, tx, budget>>

(* ------------------------------------------------------------ join_event *)
\* participants.py:53-59: SELECT event FOR UPDATE
JoinLockEvent(t) ==
    /\ CanBegin(t)
    /\ budget' = budget - 1
    /\ IF ~event.exists THEN Abort(t, "join", "NotFound")
       ELSE /\ CanLock(t, {ELock})
            /\ IF event.status = "CANCELED" THEN Abort(t, "join", "InvalidState")
               ELSE Goto(t, [IdleTx EXCEPT !.op = "join", !.pc = "count",
                                           !.locks = {ELock}])

\* participants.py:61-64: count approved, resolve the status, normalize.
\* The request's user and ride fields are first read here.
JoinCount(t, u, ride_mode, seats_opt) ==
    /\ tx[t].op = "join" /\ tx[t].pc = "count"
    /\ UNCHANGED budget
    /\ LET status == ResolveJoinStatus(event, CountApproved(PView(t)))
           nr == NormalizeRide(ride_mode, seats_opt)
       IN
       IF status \notin ParticipationStatus THEN Abort(t, "join", status)
       ELSE IF ~nr.ok THEN Abort(t, "join", "Validation")
       ELSE Goto(t, [tx[t] EXCEPT !.pc = "upsert", !.user = u, !.next = status,
                                  !.mode = nr.mode, !.seats = nr.seats])

\* participants.py:66-93: SELECT the row FOR UPDATE, insert or overwrite, flush
JoinUpsert(t) ==
    /\ tx[t].op = "join" /\ tx[t].pc = "upsert"
    /\ UNCHANGED budget
    /\ LET p == FindParticipant(PView(t), tx[t].user)
           row == [user |-> tx[t].user, status |-> tx[t].next,
                   ride_mode |-> tx[t].mode, seats_offered |-> tx[t].seats]
       IN
       IF p = 0 THEN Commit(t, "join", Append(parts, row), matches)
       ELSE /\ CanLock(t, {PLock(p)})
            /\ Commit(t, "join", [parts EXCEPT ![p] = row], matches)

(* ----------------------------------------------------------- leave_event *)
\* the cascade UPDATE ride_matches ... SET status = CANCELED for participant
\* pid: the rows it rewrites
CascadeCancel(ms, pid) ==
    [j \in ActiveMatchesOf(ms, pid) |-> [ms[j] EXCEPT !.status = "CANCELED"]]

\* participants.py:96-106: SELECT the row FOR UPDATE, cancel it
LeaveLockP(t, u) ==
    /\ CanBegin(t)
    /\ budget' = budget - 1
    /\ LET p == FindParticipant(parts, u) IN
       IF p = 0 THEN Abort(t, "leave", "NotFound")
       ELSE /\ CanLock(t, {PLock(p)})
            /\ Goto(t, [IdleTx EXCEPT
                  !.op = "leave", !.pc = "cancel", !.user = u, !.pid = p,
                  !.locks = {PLock(p)},
                  !.wp = (p :> [parts[p] EXCEPT !.status = "CANCELED",
                                                !.ride_mode = "NONE",
                                                !.seats_offered = 0])])

\* participants.py:109-117: UPDATE the participant's active matches
LeaveCancelMatches(t) ==
    /\ tx[t].op = "leave" /\ tx[t].pc = "cancel"
    /\ UNCHANGED budget
    /\ LET w == CascadeCancel(MView(t), tx[t].pid) IN
       /\ CanLock(t, {MLock(j) : j \in DOMAIN w})
       /\ Goto(t, [tx[t] EXCEPT !.pc = "lock_event", !.wm = w,
                     !.locks = @ \cup {MLock(j) : j \in DOMAIN w}])

\* participants.py:121: whether leave looks for a pending participant
PromotionApplies(ev) ==
    ev.join_policy = "OPEN_UNTIL_CAPACITY_THEN_APPROVAL" /\ ev.capacity # None

\* participants.py:120-121: SELECT event FOR UPDATE
LeaveLockEvent(t) ==
    /\ tx[t].op = "leave" /\ tx[t].pc = "lock_event"
    /\ UNCHANGED budget
    /\ CanLock(t, {ELock})
    /\ IF PromotionApplies(event)
       THEN Goto(t, [tx[t] EXCEPT !.pc = "count", !.locks = @ \cup {ELock}])
       ELSE Commit(t, "leave", PView(t), MView(t))

\* participants.py:122-123: count approved
LeaveCount(t) ==
    /\ tx[t].op = "leave" /\ tx[t].pc = "count"
    /\ UNCHANGED budget
    /\ IF CountApproved(PView(t)) < event.capacity[1]
       THEN Goto(t, [tx[t] EXCEPT !.pc = "promote"])
       ELSE Commit(t, "leave", PView(t), MView(t))

\* the rows of the pending query (participants.py:124-129)
PendingRows(ps) == {i \in DOMAIN ps : ps[i].status = "PENDING"}

\* participants.py:124-133: SELECT pending rows FOR UPDATE, .one_or_none()
LeavePromote(t) ==
    /\ tx[t].op = "leave" /\ tx[t].pc = "promote"
    /\ UNCHANGED budget
    /\ LET pending == PendingRows(PView(t)) IN
       /\ CanLock(t, {PLock(i) : i \in pending})
       /\ IF Cardinality(pending) > 1 THEN Abort(t, "leave", "MultipleResults")
          ELSE IF pending = {} THEN Commit(t, "leave", PView(t), MView(t))
          ELSE LET o == CHOOSE i \in pending : TRUE IN
               Commit(t, "leave", [PView(t) EXCEPT ![o].status = "APPROVED"], MView(t))

(* ----------------------------------------------- update_my_participation *)
\* the cascade taken when the seats change too
ModeOrSeatsChanged(prev, row) ==
    prev.ride_mode # row.ride_mode \/ prev.seats_offered # row.seats_offered

\* participants.py:161: the cascade is taken when the ride mode has changed
ModeChanged(prev, row) == prev.ride_mode # row.ride_mode

\* participants.py:137-159 (and :172 when the ride mode is unchanged)
UpdLockP(t, u, mode_opt, seats_opt) ==
    /\ CanBegin(t)
    /\ budget' = budget - 1
    /\ LET p == FindParticipant(parts, u) IN
       IF p = 0 THEN Abort(t, "update", "NotFound")
       ELSE /\ CanLock(t, {PLock(p)})
            /\ LET new_mode == IF mode_opt # None THEN mode_opt[1]
                               ELSE parts[p].ride_mode
                   new_seats == IF seats_opt # None THEN seats_opt
                                ELSE Some(parts[p].seats_offered)
                   nr == NormalizeRide(new_mode, new_seats)
                   row == [parts[p] EXCEPT !.ride_mode = nr.mode,
                                           !.seats_offered = nr.seats]
               IN
               IF parts[p].status \notin {"APPROVED", "PENDING"}
               THEN Abort(t, "update", "InvalidState")
               ELSE IF ~nr.ok THEN Abort(t, "update", "Validation")
               ELSE IF ModeChanged(parts[p], row)
               THEN Goto(t, [IdleTx EXCEPT
                       !.op = "update", !.pc = "cancel", !.user = u, !.pid = p,
                       !.locks = {PLock(p)}, !.wp = (p :> row)])
               ELSE Commit(t, "update", [parts EXCEPT ![p] = row], matches)

\* participants.py:161-173: UPDATE the participant's active matches, flush
UpdCancelMatches(t) ==
    /\ tx[t].op = "update" /\ tx[t].pc = "cancel"
    /\ UNCHANGED budget
    /\ LET w == CascadeCancel(MView(t), tx[t].pid) IN
       /\ CanLock(t, {MLock(j) : j \in DOMAIN w})
       /\ Commit(t, "update", PView(t),
                 [j \in DOMAIN matches |-> IF j \in DOMAIN w THEN w[j]
                                           ELSE matches[j]])

(* ------------------------------------------------ set_participant_status *)
\* organizer.py:29-30: the statuses an organizer may set
OrganizerTargets == {"APPROVED", "REJECTED"}

\* set_participant_status reading the event row without FOR UPDATE
SpsNoEventLock == {}

\* organizer.py:33-35: the event row is read FOR UPDATE
SpsEventLock == {ELock}

\* an owner test that lets every user pass
AnyoneIsOrganizer(ev, organizer_id) == TRUE

\* organizer.py:38: the caller is the event's creator
IsOrganizer(ev, organizer_id) == ev.created_by = organizer_id

\* organizer.py:29-39: check the target, SELECT event FOR UPDATE, check the owner
SpsLockEvent(t, organizer_id, participant_id, next_status) ==
    /\ CanBegin(t)
    /\ budget' = budget - 1
    /\ IF next_status \notin OrganizerTargets THEN Abort(t, "set_status", "Validation")
       ELSE IF ~event.exists THEN Abort(t, "set_status", "NotFound")
       ELSE /\ CanLock(t, SpsEventLock)
            /\ IF ~IsOrganizer(event, organizer_id)
               THEN Abort(t, "set_status", "Forbidden")
               ELSE Goto(t, [IdleTx EXCEPT
                       !.op = "set_status", !.pc = "lock_p",
                       !.user = organizer_id, !.pid = participant_id,
                       !.next = next_status, !.locks = SpsEventLock])

\* organizer.py:49-50: whether the approved count is taken
NeedsCapacityCheck(ev, next_status) ==
    next_status = "APPROVED" /\ ev.capacity # None

\* organizer.py:41-50 (and :63-66 when no count is taken)
SpsLockP(t) ==
    /\ tx[t].op = "set_status" /\ tx[t].pc = "lock_p"
    /\ UNCHANGED budget
    /\ LET p == tx[t].pid IN
       IF p \notin DOMAIN parts THEN Abort(t, "set_status", "NotFound")
       ELSE /\ CanLock(t, {PLock(p)})
            /\ IF NeedsCapacityCheck(event, tx[t].next)
               THEN Goto(t, [tx[t] EXCEPT !.pc = "count",
                                          !.locks = @ \cup {PLock(p)}])
               ELSE Commit(t, "set_status", [parts EXCEPT ![p].status = tx[t].next], matches)

\* organizer.py:60: the capacity test of an approval
ApprovalFull(ev, approved_count) == approved_count >= ev.capacity[1]

\* organizer.py:51-61: count approved, refuse when full
SpsCount(t) ==
    /\ tx[t].op = "set_status" /\ tx[t].pc = "count"
    /\ UNCHANGED budget
    /\ IF ApprovalFull(event, CountApproved(PView(t)))
       THEN Abort(t, "set_status", "Capacity")
       ELSE Goto(t, [tx[t] EXCEPT !.pc = "flush"])

\* organizer.py:63-66: set the status, flush
SpsFlush(t) ==
    /\ tx[t].op = "set_status" /\ tx[t].pc = "flush"
    /\ UNCHANGED budget
    /\ Commit(t, "set_status", [parts EXCEPT ![tx[t].pid].status = tx[t].next], matches)

(* ----------------------------------------- _ensure_compatible_and_seat *)
\* the driver row read without FOR UPDATE
EnsureReadDriver(t, me, d) ==
    Goto(t, [me EXCEPT !.pc = "lock_rider",
                       !.pid = IF d \in DOMAIN parts THEN d ELSE 0])

\* rides.py:18-20: SELECT the driver FOR UPDATE; `me` is the transaction
\* about to run it, d the driver id.  pid = 0 records that no row was found.
EnsureLockDriver(t, me, d) ==
    IF d \notin DOMAIN parts
    THEN Goto(t, [me EXCEPT !.pc = "lock_rider", !.pid = 0])
    ELSE /\ CanLock(t, {PLock(d)})
         /\ Goto(t, [me EXCEPT !.pc = "lock_rider", !.pid = d,
                               !.locks = @ \cup {PLock(d)}])

\* rides.py:25-34: the checks on the two rows; "ok" or the error raised
Compatible(ps, d, r) ==
    IF d = 0 \/ r = 0 THEN "NotFound"
    ELSE IF d = r THEN "Validation"
    ELSE IF ps[d].status # "APPROVED" \/ ps[r].status # "APPROVED"
         THEN "InvalidState"
    ELSE IF ps[d].ride_mode # "OFFER" THEN "InvalidState"
    ELSE IF ps[r].ride_mode # "NEED" THEN "InvalidState"
    ELSE "ok"

\* rides.py:21-34: SELECT the rider FOR UPDATE, then the checks
EnsureLockRider(t) ==
    /\ tx[t].op \in {"create_match", "update_match"}
    /\ tx[t].pc = "lock_rider"
    /\ UNCHANGED budget
    /\ LET found == tx[t].rid \in DOMAIN parts
           r == IF found THEN tx[t].rid ELSE 0
           c == Compatible(PView(t), tx[t].pid, r)
       IN
       /\ found => CanLock(t, {PLock(r)})
       /\ IF c # "ok" THEN Abort(t, tx[t].op, c)
          ELSE Goto(t, [tx[t] EXCEPT !.pc = "count",
                                     !.locks = @ \cup {PLock(r)}])

\* the seat test with > in place of >=
NoSeatOffByOne(accepted, seats_offered) == accepted > seats_offered

\* rides.py:37: no seat is left
NoSeat(accepted, seats_offered) == accepted >= seats_offered

\* rides.py:36-38: count the driver's accepted matches
EnsureCount(t) ==
    /\ tx[t].op \in {"create_match", "update_match"}
    /\ tx[t].pc = "count"
    /\ UNCHANGED budget
    /\ IF NoSeat(AcceptedCount(MView(t), tx[t].pid),
                 PView(t)[tx[t].pid].seats_offered)
       THEN Abort(t, tx[t].op, "Capacity")
       ELSE Goto(t, [tx[t] EXCEPT !.pc = "flush"])

(* ---------------------------------------------------------- create_match *)
\* rides.py:40-41: create_match enters the check
CmLockDriver(t, driver_pid, rider_pid) ==
    /\ CanBegin(t)
    /\ Len(matches) + Cardinality({u \in Txns : tx[u].op = "create_match"})
          < MaxMatches
    /\ budget' = budget - 1
    /\ EnsureLockDriver(t, [IdleTx EXCEPT !.op = "create_match",
                                          !.rid = rider_pid], driver_pid)

\* rides.py:42-51: INSERT the match; created_by is first read here
CmInsert(t, created_by) ==
    /\ tx[t].op = "create_match" /\ tx[t].pc = "flush"
    /\ UNCHANGED budget
    /\ Commit(t, "create_match", parts,
              Append(matches, [driver |-> tx[t].pid, rider |-> tx[t].rid,
                               status |-> "PROPOSED",
                               created_by |-> created_by]))

(* --------------------------------------------------- update_match_status *)
\* rides.py:54-55: the statuses a match may be given
MatchTargets == {"ACCEPTED", "REJECTED", "CANCELED"}

\* an authorization that lets every user pass
AllowedAnyone(ps, m, user_id) == TRUE

\* rides.py:64: who may change the match
Allowed(ps, m, user_id) ==
    \/ user_id = m.created_by
    \/ (m.driver \in DOMAIN ps /\ user_id = ps[m.driver].user)
    \/ (m.rider \in DOMAIN ps /\ user_id = ps[m.rider].user)

\* rides.py:54-69 (and :71-73 for a status other than ACCEPTED): SELECT the
\* match FOR UPDATE, read the two users (user_id never changes), authorize
UmsLockMatch(t, match_id, user_id, next_status) ==
    /\ CanBegin(t)
    /\ budget' = budget - 1
    /\ IF next_status \notin MatchTargets THEN Abort(t, "update_match", "Validation")
       ELSE IF match_id \notin DOMAIN matches THEN Abort(t, "update_match", "NotFound")
       ELSE /\ CanLock(t, {MLock(match_id)})
            /\ IF ~Allowed(parts, matches[match_id], user_id)
               THEN Abort(t, "update_match", "Forbidden")
               ELSE IF next_status = "ACCEPTED"
               THEN Goto(t, [IdleTx EXCEPT
                       !.op = "update_match", !.pc = "lock_driver",
                       !.user = user_id, !.mid = match_id,
                       !.rid = matches[match_id].rider,
                       !.next = next_status, !.locks = {MLock(match_id)}])
               ELSE Commit(t, "update_match", parts,
                           [matches EXCEPT ![match_id].status = next_status])

\* rides.py:69: update_match_status enters the check
UmsLockDriver(t) ==
    /\ tx[t].op = "update_match" /\ tx[t].pc = "lock_driver"
    /\ UNCHANGED budget
    /\ EnsureLockDriver(t, tx[t], matches[tx[t].mid].driver)

\* the accept that also cancels the PROPOSED matches competing for the same
\* driver or rider
UmsFlushCancellingRivals(t) ==
    /\ tx[t].op = "update_match" /\ tx[t].pc = "flush"
    /\ UNCHANGED budget
    /\ Commit(t, "update_match", parts,
              [j \in DOMAIN matches |->
                 IF j = tx[t].mid THEN [matches[j] EXCEPT !.status = tx[t].next]
                 ELSE IF /\ matches[j].status = "PROPOSED"
                         /\ \/ matches[j].driver = matches[tx[t].mid].driver
                            \/ matches[j].rider = matches[tx[t].mid].rider
                      THEN [matches[j] EXCEPT !.status = "CANCELED"]
                 ELSE matches[j]])

\* rides.py:71-73: set the status, flush
UmsFlush(t) ==
    /\ tx[t].op = "update_match" /\ tx[t].pc = "flush"
    /\ UNCHANGED budget
    /\ Commit(t, "update_match", parts, [matches EXCEPT ![tx[t].mid].status = tx[t].next])

(* ----------------------------------------------------------- suggestions *)
\* the ids of the APPROVED rows of ps with the ride mode, from the i-th on,
\* in creation order
RECURSIVE OrderedIds(_, _, _)
OrderedIds(ps, ride_mode, i) ==
    IF i > Len(ps) THEN <<>>
    ELSE (IF ps[i].status = "APPROVED" /\ ps[i].ride_mode = ride_mode
          THEN <<i>> ELSE <<>>) \o OrderedIds(ps, ride_mode, i + 1)

\* rides.py:81-89: APPROVED OFFER rows ORDER BY created_at
PlannerDrivers(ps) == OrderedIds(ps, "OFFER", 1)

\* rides.py:91-99: APPROVED NEED rows ORDER BY created_at
PlannerRiders(ps) == OrderedIds(ps, "NEED", 1)

\* the seats left computed without the accepted matches
RemainingIgnoringAccepted(ps, ms, d) == ps[d].seats_offered

\* rides.py:104-105: the seats a driver has left
Remaining(ps, ms, d) == ps[d].seats_offered - AcceptedCount(ms, d)

\* rides.py:106-112: the while loop; rider_idx counts from 0 as in the code
RECURSIVE SuggestRiders(_, _, _, _, _)
SuggestRiders(d, remaining, riders, rider_idx, out) ==
    IF remaining > 0 /\ rider_idx < Len(riders)
    THEN SuggestRiders(d, remaining - 1, riders, rider_idx + 1,
                       Append(out, [driver |-> d, rider |-> riders[rider_idx + 1]]))
    ELSE [rider_idx |-> rider_idx, out |-> out]

\* rides.py:103-114: the for loop over the drivers, from the k-th on
RECURSIVE SuggestDrivers(_, _, _, _, _, _, _)
SuggestDrivers(ps, ms, drivers, k, riders, rider_idx, out) ==
    IF k > Len(drivers) THEN out
    ELSE LET r == SuggestRiders(drivers[k], Remaining(ps, ms, drivers[k]),
                                riders, rider_idx, out)
         IN
         IF r.rider_idx >= Len(riders) THEN r.out
         ELSE SuggestDrivers(ps, ms, drivers, k + 1, riders, r.rider_idx, r.out)

\* rides.py:80 suggestions
Suggestions(ps, ms) ==
    SuggestDrivers(ps, ms, PlannerDrivers(ps), 1, PlannerRiders(ps), 0, <<>>)

\* main.py:95-97 api_suggestions: a read of the committed rows that writes
\* nothing; the pairing list it returns is the outcome
Suggest ==
    /\ budget > 0
    /\ budget' = budget - 1
    /\ outcome' = [op |-> "suggestions", res |-> Suggestions(parts, matches)]
    /\ UNCHANGED <<event, parts, matches, tx>>

(* ----------------------------------------------------------- event_stats *)
\* SUM(seats_offered) over the rows with the ids in S, 0 for none
RECURSIVE SumSeats(_, _)
SumSeats(ps, S) ==
    IF S = {} THEN 0
    ELSE LET i == CHOOSE x \in S : TRUE IN
         ps[i].seats_offered + SumSeats(ps, S \ {i})

\* the seats left as the plain difference
SeatsRemainingUnclamped(offered, accepted) == offered - accepted

\* organizer.py:120 seats_remaining_total
SeatsRemaining(offered, accepted) ==
    IF offered - accepted > 0 THEN offered - accepted ELSE 0

\* the unmatched riders as the difference of the two set sizes
UnmatchedByCounts(need_riders_set, accepted_riders_set) ==
    Cardinality(need_riders_set) - Cardinality(accepted_riders_set)

\* organizer.py:143 unmatched_riders_count
UnmatchedRiders(need_riders_set, accepted_riders_set) ==
    Cardinality(need_riders_set \ accepted_riders_set)

\* organizer.py:68 event_stats on the rows ps and ms
EventStats(ps, ms) ==
    LET count_status(st) == Cardinality({i \in DOMAIN ps : ps[i].status = st})
        approved_with(mode) ==
            {i \in DOMAIN ps : ps[i].status = "APPROVED" /\ ps[i].ride_mode = mode}
        seats_offered_total == SumSeats(ps, approved_with("OFFER"))
        seats_accepted_total ==
            Cardinality({j \in DOMAIN ms : ms[j].status = "ACCEPTED"})
        need_riders_set == approved_with("NEED")
        accepted_riders_set ==
            {ms[j].rider : j \in {k \in DOMAIN ms : ms[k].status = "ACCEPTED"}}
    IN
    [approved_count |-> count_status("APPROVED"),
     pending_count |-> count_status("PENDING"),
     rejected_count |-> count_status("REJECTED"),
     canceled_count |-> count_status("CANCELED"),
     need_ride_count |-> Cardinality(approved_with("NEED")),
     offer_ride_count |-> Cardinality(approved_with("OFFER")),
     seats_offered_total |-> seats_offered_total,
     seats_accepted_total |-> seats_accepted_total,
     seats_remaining_total |-> SeatsRemaining(seats_offered_total, seats_accepted_total),
     unmatched_riders_count |-> UnmatchedRiders(need_riders_set, accepted_riders_set)]

(* ------------------------------------------------------------- deadlocks *)
\* the row locks the next statement of t asks for
Wants(t) ==
    LET x == tx[t] IN
    IF x.op = "join" /\ x.pc = "upsert"
    THEN (IF FindParticipant(parts, x.user) = 0 THEN {}
          ELSE {PLock(FindParticipant(parts, x.user))})
    ELSE IF x.op \in {"leave", "update"} /\ x.pc = "cancel"
    THEN {MLock(j) : j \in ActiveMatchesOf(matches, x.pid)}
    ELSE IF x.op = "leave" /\ x.pc = "lock_event" THEN {ELock}
    ELSE IF x.op = "leave" /\ x.pc = "promote"
    THEN {PLock(i) : i \in PendingRows(PView(t))}
    ELSE IF x.op = "set_status" /\ x.pc = "lock_p"
    THEN (IF x.pid \in DOMAIN parts THEN {PLock(x.pid)} ELSE {})
    ELSE IF x.op = "update_match" /\ x.pc = "lock_driver"
    THEN {PLock(matches[x.mid].driver)}
    ELSE IF x.op \in {"create_match", "update_match"} /\ x.pc = "lock_rider"
    THEN (IF x.rid \in DOMAIN parts THEN {PLock(x.rid)} ELSE {})
    ELSE {}

\* t waits for a lock that u holds
WaitsFor(t, u) == t # u /\ Wants(t) \cap tx[u].locks # {}

\* the transactions t waits for, directly or through others
RECURSIVE WaitClosure(_, _)
WaitClosure(S, n) ==
    IF n = 0 THEN S
    ELSE WaitClosure(S \cup {v \in Txns : \E u \in S : WaitsFor(u, v)}, n - 1)

InWaitCycle(t) ==
    t \in WaitClosure({v \in Txns : WaitsFor(t, v)}, Cardinality(Txns))

\* the store's deadlock detector ends one transaction of a lock-wait cycle
DeadlockAbort(t) ==
    /\ tx[t].op # "idle"
    /\ InWaitCycle(t)
    /\ UNCHANGED budget
    /\ Abort(t, tx[t].op, "Deadlock")

(* -------------------------------------------------------- specifications *)
\* The store after construction: no event, no rows.
Init ==
    /\ event = NoEvent
    /\ parts = <<>>
    /\ matches = <<>>
    /\ tx = [t \in Txns |-> IdleTx]
    /\ budget = MaxOps
    /\ outcome = NoOutcome

PartOps(T) ==
    \/ \E t \in T : JoinLockEvent(t)
    \/ \E t \in T, u \in Users, m \in RideMode, s \in Opt(Seats) :
          JoinCount(t, u, m, s)
    \/ \E t \in T : JoinUpsert(t)
    \/ \E t \in T, u \in Users : LeaveLockP(t, u)
    \/ \E t \in T : LeaveCancelMatches(t)
    \/ \E t \in T : LeaveLockEvent(t)
    \/ \E t \in T : LeaveCount(t)
    \/ \E t \in T : LeavePromote(t)
    \/ \E t \in T, u \in Users, m \in Opt(RideMode), s \in Opt(Seats) :
          UpdLockP(t, u, m, s)
    \/ \E t \in T : UpdCancelMatches(t)
    \/ \E t \in T, o \in Users, p \in PartIds, n \in ParticipationStatus :
          SpsLockEvent(t, o, p, n)
    \/ \E t \in T : SpsLockP(t)
    \/ \E t \in T : SpsCount(t)
    \/ \E t \in T : SpsFlush(t)
    \/ \E t \in T : DeadlockAbort(t)

RideOps(T) ==
    \/ \E t \in T, d \in PartIds, r \in PartIds : CmLockDriver(t, d, r)
    \/ \E t \in T : EnsureLockRider(t)
    \/ \E t \in T : EnsureCount(t)
    \/ \E t \in T, u \in Users : CmInsert(t, u)
    \/ \E t \in T, m \in MatchIds, u \in Users, n \in RideMatchStatus :
          UmsLockMatch(t, m, u, n)
    \/ \E t \in T : UmsLockDriver(t)
    \/ \E t \in T : UmsFlush(t)

\* Events are created and published, and people join, leave, update and are
\* approved or rejected, in two concurrent sessions.
Next ==
    \/ \E u \in Users, cap \in Opt(1..MaxCapacity), policy \in EventJoinPolicy :
          CreateEvent(u, cap, policy)
    \/ \E u \in Users : PublishEvent(u)
    \/ PartOps(Txns)

Spec == Init /\ [][Next]_vars

(* A published event that u1, u2 and u3 have joined, one after the other,  *)
(* and for which matches have been proposed: the rows that serial calls of *)
(* join_event and create_match leave behind.                               *)
JoinedRow(ev, ps, u, ride) ==
    LET st == ResolveJoinStatus(ev, CountApproved(ps)) IN
    IF st \in ParticipationStatus
    THEN Append(ps, [user |-> u, status |-> st, ride_mode |-> ride[1],
                     seats_offered |-> ride[2]])
    ELSE ps

ProposedRow(ps, d, r) ==
    [driver |-> d, rider |-> r, status |-> "PROPOSED", created_by |-> ps[d].user]

InitJoined ==
    /\ \E cap \in Opt(1..MaxCapacity), policy \in EventJoinPolicy :
          event = [exists |-> TRUE, created_by |-> "u1", capacity |-> cap,
                   join_policy |-> policy, status |-> "PUBLISHED"]
    /\ \E s \in 1..MaxSeats, r3 \in {<<"NEED", 0>>, <<"NONE", 0>>} :
          parts = JoinedRow(event,
                     JoinedRow(event,
                        JoinedRow(event, <<>>, "u1", <<"OFFER", s>>),
                        "u2", <<"NEED", 0>>),
                     "u3", r3)
    /\ \E k \in 0..MaxMatches :
          \E ms \in [1..k -> {ProposedRow(parts, d, r) : d, r \in DOMAIN parts}] :
             /\ \A j \in 1..k :
                   Compatible(parts, ms[j].driver, ms[j].rider) = "ok"
             /\ matches = ms
    /\ tx = [t \in Txns |-> IdleTx]
    /\ budget = MaxJoinedOps
    /\ outcome = NoOutcome

NextJoined == PartOps(Txns) \/ RideOps(Txns)

SpecJoined == InitJoined /\ [][NextJoined]_vars

(* Two accept calls race for the last seat of one driver: u1 offers one    *)
(* seat, u2 and u3 need a ride, two matches of driver u1 are PROPOSED, and *)
(* each of the two sessions accepts one of them.                           *)
InitAccept ==
    /\ event = [exists |-> TRUE, created_by |-> "u1", capacity |-> None,
                join_policy |-> "OPEN", status |-> "PUBLISHED"]
    /\ parts = JoinedRow(event,
                  JoinedRow(event,
                     JoinedRow(event, <<>>, "u1", <<"OFFER", 1>>),
                     "u2", <<"NEED", 0>>),
                  "u3", <<"NEED", 0>>)
    /\ \E r1, r2 \in {2, 3}, c1, c2 \in Users :
          matches = << [driver |-> 1, rider |-> r1, status |-> "PROPOSED",
                        created_by |-> c1],
                       [driver |-> 1, rider |-> r2, status |-> "PROPOSED",
                        created_by |-> c2] >>
    /\ tx = [t \in Txns |-> IdleTx]
    /\ budget = Cardinality(Txns)
    /\ outcome = NoOutcome

\* an authorized user accepts a PROPOSED match that no open call addresses
AcceptCall(t, match_id, user_id) ==
    /\ match_id \in DOMAIN matches
    /\ matches[match_id].status = "PROPOSED"
    /\ \A u \in Txns : tx[u].mid # match_id
    /\ Allowed(parts, matches[match_id], user_id)
    /\ UmsLockMatch(t, match_id, user_id, "ACCEPTED")

NextAccept ==
    \/ \E t \in Txns, m \in MatchIds, u \in Users : AcceptCall(t, m, u)
    \/ \E t \in Txns : UmsLockDriver(t)
    \/ \E t \in Txns : EnsureLockRider(t)
    \/ \E t \in Txns : EnsureCount(t)
    \/ \E t \in Txns : UmsFlush(t)

SpecAccept == InitAccept /\ [][NextAccept]_vars

(* The suggestion planner on its inputs: MaxPlanned participant rows, each *)
(* an approved driver, an approved rider or a row that is not approved,    *)
(* and matches between approved drivers and riders, accepted or not.       *)
PlannedRides ==
    {<<"APPROVED", "OFFER", s>> : s \in 1..MaxSeats}
        \cup {<<"APPROVED", "NEED", 0>>, <<"PENDING", "NEED", 0>>,
              <<"PENDING", "OFFER", 1>>}

InitPlanned ==
    /\ event = [exists |-> TRUE, created_by |-> "u1", capacity |-> None,
                join_policy |-> "APPROVAL", status |-> "PUBLISHED"]
    /\ \E rs \in [1..MaxPlanned -> PlannedRides] :
          parts = [i \in 1..MaxPlanned |->
                     [user |-> "u" \o ToString(i), status |-> rs[i][1],
                      ride_mode |-> rs[i][2], seats_offered |-> rs[i][3]]]
    /\ \E k \in 0..MaxMatches :
          \E ms \in [1..k -> [driver : DOMAIN parts, rider : DOMAIN parts,
                              status : {"PROPOSED", "ACCEPTED"},
                              created_by : {"u1"}]] :
             /\ \A j \in 1..k :
                   /\ parts[ms[j].driver].status = "APPROVED"
                   /\ parts[ms[j].driver].ride_mode = "OFFER"
                   /\ parts[ms[j].rider].status = "APPROVED"
                   /\ parts[ms[j].rider].ride_mode = "NEED"
                   /\ j > 1 => ms[j - 1].driver <= ms[j].driver
             /\ matches = ms
    /\ tx = [t \in Txns |-> IdleTx]
    /\ budget = 1
    /\ outcome = NoOutcome

NextPlanned == Suggest

SpecPlanned == InitPlanned /\ [][NextPlanned]_vars

(* ================================================================ claims *)
AllIdle == \A t \in Txns : tx[t].op = "idle"
ApprovedNow == Cardinality({i \in DOMAIN parts : parts[i].status = "APPROVED"})
AcceptedOf(d) ==
    Cardinality({j \in DOMAIN matches :
                    matches[j].driver = d /\ matches[j].status = "ACCEPTED"})

\* C1: whenever the event has a capacity, the number of APPROVED
\* participants in the committed rows is at most that capacity, under every
\* interleaving of joins, leaves (with promotion) and approvals.
C1_ApprovedWithinCapacity ==
    event.capacity # None => ApprovedNow <= event.capacity[1]

\* C1 witness: the event is full and an approval has just been refused.
C1_Witness ==
    /\ event.capacity # None
    /\ ApprovedNow = event.capacity[1]
    /\ outcome = [op |-> "set_status", res |-> "Capacity"]

\* C2: no driver has more ACCEPTED matches than seats_offered.
C2_AcceptedWithinSeats ==
    \A d \in DOMAIN parts : AcceptedOf(d) <= parts[d].seats_offered

\* C3: when both accept calls have ended, exactly one of the two matches is
\* ACCEPTED, the other is still PROPOSED, and the call that ended last
\* failed with Capacity.
C3_OneAcceptWins ==
    (AllIdle /\ budget = 0) =>
        /\ Cardinality({j \in DOMAIN matches : matches[j].status = "ACCEPTED"}) = 1
        /\ Cardinality({j \in DOMAIN matches : matches[j].status = "PROPOSED"}) = 1
        /\ outcome = [op |-> "update_match", res |-> "Capacity"]

\* C3 witness: both calls are open at once, one past the seat check, the
\* other waiting for the driver row.
C3_Witness ==
    \E t, u \in Txns :
        /\ t # u
        /\ tx[t].op = "update_match" /\ tx[t].pc = "flush"
        /\ tx[u].op = "update_match" /\ tx[u].pc = "lock_driver"

FullNow == event.capacity # None /\ ApprovedNow >= event.capacity[1]
JoinOutcome(r) == [op |-> "join", res |-> r]
RowOf(ps, u) == CHOOSE i \in DOMAIN ps : ps[i].user = u

\* a join passes from its count to its upsert, or ends there
JoinCountStep(t, policy) ==
    /\ tx[t].op = "join" /\ tx[t].pc = "count" /\ tx'[t] # tx[t]
    /\ event.status = "PUBLISHED" /\ event.join_policy = policy

\* a join commits
JoinCommitStep(t, policy) ==
    /\ tx[t].op = "join" /\ tx[t].pc = "upsert"
    /\ outcome' = JoinOutcome("ok")
    /\ event.join_policy = policy

\* C4: under OPEN, a join on a full event ends with Capacity and leaves the
\* participant rows as they were; on an event that is not full it goes on
\* (unless its ride fields are invalid) and commits the row as APPROVED.
C4_OpenJoin ==
    [][\A t \in Txns :
        /\ JoinCountStep(t, "OPEN") =>
              IF FullNow
              THEN /\ outcome' = JoinOutcome("Capacity")
                   /\ tx'[t] = IdleTx
                   /\ parts' = parts
              ELSE \/ outcome' = JoinOutcome("Validation")
                   \/ (tx'[t].pc = "upsert" /\ tx'[t].next = "APPROVED")
        /\ JoinCommitStep(t, "OPEN") =>
              /\ ~FullNow
              /\ parts'[RowOf(parts', tx[t].user)].status = "APPROVED"
      ]_vars

\* C4 witness: a join on a full OPEN event has just been refused.
C4_Witness ==
    /\ event.join_policy = "OPEN" /\ FullNow
    /\ outcome = JoinOutcome("Capacity")

\* C5: under APPROVAL, whatever the capacity and the approved count, a join
\* with valid ride fields resolves to PENDING and commits the row as PENDING;
\* it never ends with Capacity.
C5_ApprovalJoin ==
    [][\A t \in Txns :
        /\ JoinCountStep(t, "APPROVAL") =>
              \/ outcome' = JoinOutcome("Validation")
              \/ (tx'[t].pc = "upsert" /\ tx'[t].next = "PENDING")
        /\ JoinCommitStep(t, "APPROVAL") =>
              parts'[RowOf(parts', tx[t].user)].status = "PENDING"
      ]_vars

\* C5 witness: a join on a full APPROVAL event has just committed.
C5_Witness ==
    /\ event.join_policy = "APPROVAL" /\ FullNow
    /\ outcome = JoinOutcome("ok")
    /\ \E i \in DOMAIN parts : parts[i].status = "PENDING"

\* C6: under OPEN_UNTIL_CAPACITY_THEN_APPROVAL a join never ends with
\* Capacity; it resolves to PENDING when the event is full and to APPROVED
\* otherwise, and commits the row with that status.
C6_UntilCapacityJoin ==
    [][\A t \in Txns :
        /\ JoinCountStep(t, "OPEN_UNTIL_CAPACITY_THEN_APPROVAL") =>
              \/ outcome' = JoinOutcome("Validation")
              \/ /\ tx'[t].pc = "upsert"
                 /\ tx'[t].next = IF FullNow THEN "PENDING" ELSE "APPROVED"
        /\ JoinCommitStep(t, "OPEN_UNTIL_CAPACITY_THEN_APPROVAL") =>
              parts'[RowOf(parts', tx[t].user)].status =
                  IF FullNow THEN "PENDING" ELSE "APPROVED"
      ]_vars

\* C6 witness: a join on a full event has just committed a PENDING row.
C6_Witness ==
    /\ event.join_policy = "OPEN_UNTIL_CAPACITY_THEN_APPROVAL"
    /\ event.capacity # None /\ ApprovedNow = event.capacity[1]
    /\ outcome = JoinOutcome("ok")
    /\ \E i \in DOMAIN parts : parts[i].status = "PENDING"

ReferencesActive(ms, p) ==
    {j \in DOMAIN ms : /\ ms[j].status \in {"PROPOSED", "ACCEPTED"}
                       /\ (ms[j].driver = p \/ ms[j].rider = p)}

\* C7: the step that commits a leave makes the leaver CANCELED with ride_mode
\* NONE and no seats and, in the same step, makes every match that was
\* PROPOSED or ACCEPTED with the leaver as driver or rider CANCELED; and no
\* step makes a participant CANCELED while leaving an active match of theirs.
C7_LeaveCascades ==
    [][/\ \A t \in Txns :
            (tx[t].op = "leave" /\ outcome' = [op |-> "leave", res |-> "ok"]
                /\ tx'[t] = IdleTx) =>
               LET p == tx[t].pid IN
               /\ parts'[p].status = "CANCELED"
               /\ parts'[p].ride_mode = "NONE"
               /\ parts'[p].seats_offered = 0
               /\ \A j \in ReferencesActive(matches, p) :
                     matches'[j].status = "CANCELED"
       /\ \A p \in DOMAIN parts :
            (parts[p].status # "CANCELED" /\ parts'[p].status = "CANCELED") =>
               ReferencesActive(matches', p) = {}
      ]_vars

\* C7 witness: a leave has just committed and cancelled a match.
C7_Witness ==
    /\ outcome = [op |-> "leave", res |-> "ok"]
    /\ \E p \in DOMAIN parts, j \in DOMAIN matches :
          /\ parts[p].status = "CANCELED"
          /\ matches[j].status = "CANCELED"
          /\ (matches[j].driver = p \/ matches[j].rider = p)

OtherPending(p) ==
    {i \in DOMAIN parts : i # p /\ parts[i].status = "PENDING"}

\* C8: when a leave reaches its promotion with pending participants, it
\* commits, the earliest created pending participant becomes APPROVED and
\* every later one stays PENDING (a deadlock victim apart).
C8_PromotesOldest ==
    [][\A t \in Txns :
        (/\ tx[t].op = "leave" /\ tx[t].pc = "promote" /\ tx'[t] # tx[t]
         /\ OtherPending(tx[t].pid) # {}
         /\ outcome'.res # "Deadlock") =>
           LET pend == OtherPending(tx[t].pid)
               first == CHOOSE i \in pend : \A k \in pend : i <= k
           IN
           /\ outcome' = [op |-> "leave", res |-> "ok"]
           /\ parts'[first].status = "APPROVED"
           /\ \A k \in pend \ {first} : parts'[k].status = "PENDING"
      ]_vars

\* C9: participant rows are never deleted and keep their user, a join by a
\* user who has a row rewrites that row and adds none, and no two rows hold
\* the same user.
C9_OneRowPerUser ==
    [][/\ Len(parts') >= Len(parts)
       /\ \A i \in DOMAIN parts : parts'[i].user = parts[i].user
       /\ \A i, k \in DOMAIN parts' :
             parts'[i].user = parts'[k].user => i = k
       /\ \A t \in Txns :
             (tx[t].op = "join" /\ outcome' = JoinOutcome("ok")
                 /\ \E i \in DOMAIN parts : parts[i].user = tx[t].user) =>
                Len(parts') = Len(parts)
      ]_vars

\* C9 witness: a join is about to write the row of a user who has left.
C9_Witness ==
    \E t \in Txns, i \in DOMAIN parts :
        /\ tx[t].op = "join" /\ tx[t].pc = "upsert"
        /\ parts[i].user = tx[t].user
        /\ parts[i].status = "CANCELED"

BecomesAccepted(j) ==
    /\ j \in DOMAIN matches'
    /\ matches'[j].status = "ACCEPTED"
    /\ (j \in DOMAIN matches => matches[j].status # "ACCEPTED")

\* what an accept of the match with driver d and rider r must end with in the
\* committed rows, or "ok"
AcceptVerdict(d, r) ==
    IF d = r THEN "Validation"
    ELSE IF parts[d].status # "APPROVED" \/ parts[r].status # "APPROVED"
         THEN "InvalidState"
    ELSE IF parts[d].ride_mode # "OFFER" \/ parts[r].ride_mode # "NEED"
         THEN "InvalidState"
    ELSE IF AcceptedOf(d) >= parts[d].seats_offered THEN "Capacity"
    ELSE "ok"

\* C10: a match becomes ACCEPTED only in the committing step of an
\* update_match_status(ACCEPTED) on it, taken where driver and rider differ,
\* both are APPROVED, the driver offers, the rider needs, and the driver has
\* fewer ACCEPTED matches than seats; and an accept whose check finds one of
\* these failing ends with that error and changes no match.
C10_AcceptChecked ==
    [][/\ \A j \in MatchIds :
            BecomesAccepted(j) =>
               /\ j \in DOMAIN matches
               /\ \E t \in Txns :
                     /\ tx[t].op = "update_match" /\ tx[t].mid = j
                     /\ tx[t].pc = "flush" /\ tx'[t] = IdleTx
               /\ AcceptVerdict(matches[j].driver, matches[j].rider) = "ok"
       /\ \A t \in Txns :
            (/\ tx[t].op = "update_match" /\ tx'[t] # tx[t]
             /\ tx[t].pc \in {"lock_rider", "count"}
             /\ outcome'.res # "Deadlock") =>
               LET m == matches[tx[t].mid]
                   v == AcceptVerdict(m.driver, m.rider)
               IN
               IF v = "ok" \/ (tx[t].pc = "lock_rider" /\ v = "Capacity")
               THEN tx'[t].op = "update_match"
               ELSE /\ outcome' = [op |-> "update_match", res |-> v]
                    /\ matches' = matches
      ]_vars

\* C10 witness: an accept has just been refused for want of a seat although
\* the driver has an accepted match and the refused one is still PROPOSED.
C10_Witness ==
    /\ outcome = [op |-> "update_match", res |-> "Capacity"]
    /\ \E j, k \in DOMAIN matches :
          /\ matches[j].status = "ACCEPTED"
          /\ matches[k].status = "PROPOSED"
          /\ matches[k].driver = matches[j].driver

ApprovedIds(mode) ==
    {i \in DOMAIN parts : parts[i].status = "APPROVED" /\ parts[i].ride_mode = mode}

\* the k-th smallest element of the set of numbers S
Nth(S, k) == CHOOSE x \in S : Cardinality({y \in S : y <= x}) = k

\* the seats the driver with id d can still give
SeatsLeft(d) ==
    LET left == parts[d].seats_offered - AcceptedOf(d) IN
    IF left > 0 THEN left ELSE 0

\* the riders given to the first k drivers together
RECURSIVE GivenUpTo(_)
GivenUpTo(k) ==
    IF k = 0 THEN 0
    ELSE LET before == GivenUpTo(k - 1)
             quota == SeatsLeft(Nth(ApprovedIds("OFFER"), k))
             riders_left == Cardinality(ApprovedIds("NEED")) - before
         IN before + (IF quota < riders_left THEN quota ELSE riders_left)

\* C11: the list that suggestions returns pairs the riders (APPROVED NEED, in
\* creation order) from the front of their queue, each once, with the
\* drivers (APPROVED OFFER, in creation order): the k-th driver gets the next
\* min(max(0, seats_offered - accepted), riders left) riders, the pairings
\* come in driver order and then rider order, and nothing follows once the
\* riders are exhausted.
C11_GreedyPairing ==
    outcome.op = "suggestions" =>
       LET out == outcome.res
           D == ApprovedIds("OFFER")
           R == ApprovedIds("NEED")
       IN
       /\ Len(out) = GivenUpTo(Cardinality(D))
       /\ \A j \in 1..Len(out) :
             /\ out[j].rider = Nth(R, j)
             /\ \E k \in 1..Cardinality(D) :
                   /\ out[j].driver = Nth(D, k)
                   /\ GivenUpTo(k - 1) < j /\ j <= GivenUpTo(k)

\* C11 witness: D1 with one seat, D2 with two seats and three riders, no
\* accepted match: the planner has returned (D1,R1), (D2,R2), (D2,R3).
C11_Witness ==
    /\ outcome.op = "suggestions"
    /\ \A j \in DOMAIN matches : matches[j].status # "ACCEPTED"
    /\ Cardinality(ApprovedIds("NEED")) = 3
    /\ Cardinality(ApprovedIds("OFFER")) = 2
    /\ LET d1 == Nth(ApprovedIds("OFFER"), 1)
           d2 == Nth(ApprovedIds("OFFER"), 2)
           R == ApprovedIds("NEED")
       IN
       /\ parts[d1].seats_offered = 1 /\ parts[d2].seats_offered = 2
       /\ outcome.res = << [driver |-> d1, rider |-> Nth(R, 1)],
                           [driver |-> d2, rider |-> Nth(R, 2)],
                           [driver |-> d2, rider |-> Nth(R, 3)] >>

AcceptedRiders ==
    {r \in DOMAIN parts :
        \E j \in DOMAIN matches :
            matches[j].status = "ACCEPTED" /\ matches[j].rider = r}

C13_SeatsRemaining ==
    LET st == EventStats(parts, matches)
        offered == Cardinality({x \in ApprovedIds("OFFER") \X (1..MaxSeats) :
                                   x[2] <= parts[x[1]].seats_offered})
        accepted == Cardinality({j \in DOMAIN matches :
                                   matches[j].status = "ACCEPTED"})
    IN
    /\ st.seats_offered_total = offered
    /\ st.seats_accepted_total = accepted
    /\ st.seats_remaining_total >= 0
    /\ st.seats_remaining_total =
          (IF offered >= accepted THEN offered - accepted ELSE 0)

\* C13 witness: more matches are ACCEPTED than approved drivers offer seats.
C13_Witness ==
    LET st == EventStats(parts, matches) IN
    /\ st.seats_accepted_total > st.seats_offered_total
    /\ st.seats_remaining_total = 0

\* the ride fields a request carries keep seats_offered >= 1 iff OFFER
ValidRide(ride_mode, seats_opt) ==
    LET seats == IF seats_opt = None THEN 0 ELSE seats_opt[1] IN
    IF ride_mode = "OFFER" THEN seats >= 1 ELSE seats = 0

RideFieldsAgree(p) ==
    /\ (p.seats_offered >= 1 <=> p.ride_mode = "OFFER")
    /\ (p.ride_mode # "OFFER" => p.seats_offered = 0)

\* C14: every participant row has seats_offered >= 1 exactly when its
\* ride_mode is OFFER and 0 otherwise; a join on a published event whose ride
\* fields break this ends with ValidationError and writes no row, and so does
\* an update_my_participation of an APPROVED or PENDING participant whose
\* resulting ride fields break it.
C14_SeatsMatchRideMode ==
    [][/\ \A i \in DOMAIN parts' : RideFieldsAgree(parts'[i])
       /\ \A t \in Txns, u \in Users, m \in RideMode, s \in Opt(Seats) :
             (/\ JoinCount(t, u, m, s)
              /\ event.status = "PUBLISHED"
              /\ ~ValidRide(m, s)) =>
                /\ outcome' = [op |-> "join", res |-> "Validation"]
                /\ parts' = parts
       /\ \A t \in Txns, u \in Users, m \in Opt(RideMode), s \in Opt(Seats) :
             (/\ UpdLockP(t, u, m, s)
              /\ \E i \in DOMAIN parts :
                    /\ parts[i].user = u
                    /\ parts[i].status \in {"APPROVED", "PENDING"}
                    /\ ~ValidRide(IF m = None THEN parts[i].ride_mode ELSE m[1],
                                  IF s = None THEN Some(parts[i].seats_offered)
                                  ELSE s)) =>
                /\ outcome' = [op |-> "update", res |-> "Validation"]
                /\ parts' = parts
      ]_vars

\* C20: a join on a published event whose ride fields are invalid ends with
\* ValidationError whatever the occupancy, a full OPEN event included, and
\* changes no row.
C20_ValidationBeforeCapacity ==
    [][\A t \in Txns, u \in Users, m \in RideMode, s \in Opt(Seats) :
          (/\ tx[t].op = "join" /\ tx[t].pc = "count"
           /\ event.status = "PUBLISHED"
           /\ ~ValidRide(m, s)
           /\ JoinCount(t, u, m, s)) =>
             /\ outcome' = [op |-> "join", res |-> "Validation"]
             /\ UNCHANGED <<event, parts, matches>>
      ]_vars

LockKind(l) == l[1]

\* C15: no call asks for the event lock while it holds a participant or a
\* match lock, and none asks for a participant lock while it holds a match
\* lock.
C15_LockOrder ==
    \A t \in Txns :
        /\ ELock \in Wants(t) =>
              \A h \in tx[t].locks : LockKind(h) \notin {"P", "M"}
        /\ (\E w \in Wants(t) : LockKind(w) = "P") =>
              \A h \in tx[t].locks : LockKind(h) # "M"

Failed(o) == o.res \notin {"ok", "none"}

\* C16: a step in which a call fails leaves the committed event, participant
\* and match rows exactly as they were, whatever the call had written before,
\* and the committed rows change only in the step that ends a call with
\* success.
C16_AllOrNothing ==
    [][/\ Failed(outcome') => UNCHANGED <<event, parts, matches>>
       /\ <<event, parts, matches>>' # <<event, parts, matches>> =>
             outcome'.res = "ok"
      ]_vars

\* C16 witness: a leave has failed after it had cancelled its row and its
\* matches, and the leaver's committed row is not CANCELED.
C16_Witness ==
    /\ Failed(outcome) /\ outcome.op = "leave"
    /\ outcome.res # "NotFound"
    /\ \E i \in DOMAIN parts : parts[i].status = "APPROVED"
    /\ Cardinality({i \in DOMAIN parts : parts[i].status = "PENDING"}) >= 2

StatusSetTo(p, st) ==
    /\ p \in DOMAIN parts'
    /\ parts'[p].status = st
    /\ (p \in DOMAIN parts => parts[p].status # st)

\* C17: set_participant_status on an existing event by a user other than its
\* creator ends with Forbidden and changes no participant; and a participant
\* becomes REJECTED only in the commit of a set_participant_status call of
\* the event's creator for that participant, and APPROVED only there, in the
\* commit of the participant's own join, or as the pending participant that
\* a leave promotes.
C17_OrganizerOnly ==
    [][/\ \A t \in Txns, o \in Users, p \in PartIds, n \in OrganizerTargets :
             (/\ outcome'.op = "set_status"
              /\ tx[t].op = "idle"
              /\ event.exists /\ o # event.created_by
              /\ SpsLockEvent(t, o, p, n)) =>
                /\ outcome'.res = "Forbidden"
                /\ parts' = parts
       /\ \A p \in PartIds, st \in {"APPROVED", "REJECTED"} :
             StatusSetTo(p, st) =>
                \E t \in Txns :
                   /\ tx'[t] = IdleTx
                   /\ \/ /\ tx[t].op = "set_status"
                         /\ tx[t].user = event.created_by
                         /\ tx[t].pid = p /\ tx[t].next = st
                      \/ /\ st = "APPROVED"
                         /\ tx[t].op = "join"
                         /\ tx[t].user = parts'[p].user
                      \/ /\ st = "APPROVED"
                         /\ tx[t].op = "leave" /\ tx[t].pid # p
                         /\ parts[p].status = "PENDING"
      ]_vars

\* C17 witness: a user who did not create the event has just been refused
\* while a participant is waiting for approval.
C17_Witness ==
    /\ outcome = [op |-> "set_status", res |-> "Forbidden"]
    /\ \E i \in DOMAIN parts : parts[i].status = "PENDING"

\* the actor is neither the proposer nor the driver's nor the rider's user
Stranger(j, actor) ==
    /\ actor # matches[j].created_by
    /\ actor # parts[matches[j].driver].user
    /\ actor # parts[matches[j].rider].user

\* an update_match_status call of a stranger for match j starts in this step
StrangerCall(t, j, actor, next_status) ==
    /\ outcome'.op = "update_match"
    /\ tx[t].op = "idle"
    /\ j \in DOMAIN matches
    /\ Stranger(j, actor)
    /\ UmsLockMatch(t, j, actor, next_status)

\* C18: update_match_status on an existing match by an actor who is neither
\* its proposer nor the user of its driver or rider ends with Forbidden for
\* each next status the operation takes (ACCEPTED, REJECTED, CANCELED) and
\* leaves the matches unchanged; a request that carries PROPOSED is refused
\* as invalid before the authorization and changes nothing either.
C18_StrangerForbidden ==
    [][\A t \in Txns, j \in MatchIds, a \in Users, n \in RideMatchStatus :
          StrangerCall(t, j, a, n) =>
             /\ n \in {"ACCEPTED", "REJECTED", "CANCELED"} =>
                   outcome'.res = "Forbidden"
             /\ Failed(outcome')
             /\ matches' = matches
      ]_vars

\* C18 witness: a stranger has just been refused while a match is PROPOSED.
C18_Witness ==
    /\ outcome = [op |-> "update_match", res |-> "Forbidden"]
    /\ \E j \in DOMAIN matches : matches[j].status = "PROPOSED"

\* C19: a join on an event that is not PUBLISHED ends with InvalidState and
\* changes no row; no step creates a participant or changes one while the
\* event is not PUBLISHED, and participants exist only for a PUBLISHED event.
C19_PublishedOnly ==
    [][/\ \A t \in Txns :
             (/\ tx[t].op = "join" /\ tx[t].pc = "count" /\ tx'[t] # tx[t]
              /\ event.status # "PUBLISHED") =>
                /\ outcome' = [op |-> "join", res |-> "InvalidState"]
                /\ UNCHANGED <<parts, matches>>
       /\ parts' # parts =>
             (event.status = "PUBLISHED" /\ event'.status = "PUBLISHED")
       /\ parts' # <<>> => event'.status = "PUBLISHED"
      ]_vars

\* C19 witness: a join on a DRAFT event has just been refused.
C19_Witness ==
    /\ event.exists /\ event.status = "DRAFT"
    /\ outcome = [op |-> "join", res |-> "InvalidState"]

\* a leave of transaction t ends in this step
LeaveEnds(t) == tx[t].op = "leave" /\ tx'[t] = IdleTx

ApprovedBeside(p) ==
    Cardinality({k \in DOMAIN parts : k # p /\ parts[k].status = "APPROVED"})

\* C21: the step that ends a leave changes the status of a participant other
\* than the leaver only when the policy is OPEN_UNTIL_CAPACITY_THEN_APPROVAL,
\* a capacity is set, the leaver was APPROVED before the call and the
\* approved count without the leaver is below the capacity.
C21_LeavePromotesOnlyOnFreedSeat ==
    [][\A t \in Txns :
          LeaveEnds(t) =>
             \A i \in DOMAIN parts :
                (i # tx[t].pid /\ parts'[i].status # parts[i].status) =>
                   /\ event.join_policy = "OPEN_UNTIL_CAPACITY_THEN_APPROVAL"
                   /\ event.capacity # None
                   /\ parts[tx[t].pid].status = "APPROVED"
                   /\ ApprovedBeside(tx[t].pid) < event.capacity[1]
      ]_vars

UpdateOutcome(r) == [op |-> "update", res |-> r]

\* C22: an update_my_participation that commits in its first step (no
\* cascade) has left every ride mode as it was and changes no match; one that
\* commits after its cascade has changed the participant's ride mode, makes
\* every match that was PROPOSED or ACCEPTED with the participant as driver
\* or rider CANCELED and changes no other match.  A change of seats_offered
\* alone therefore leaves every match as it was.
C22_CascadeIffModeChanged ==
    [][outcome' = UpdateOutcome("ok") =>
          IF \E t \in Txns : tx[t].op = "update" /\ tx'[t] = IdleTx
          THEN \A t \in Txns :
                  (tx[t].op = "update" /\ tx'[t] = IdleTx) =>
                     LET p == tx[t].pid IN
                     /\ parts'[p].ride_mode # parts[p].ride_mode
                     /\ DOMAIN matches' = DOMAIN matches
                     /\ \A j \in DOMAIN matches :
                           matches'[j] =
                              IF j \in ReferencesActive(matches, p)
                              THEN [matches[j] EXCEPT !.status = "CANCELED"]
                              ELSE matches[j]
          ELSE /\ matches' = matches
               /\ \A i \in DOMAIN parts :
                     parts'[i].ride_mode = parts[i].ride_mode
      ]_vars

\* C22 witness: the only call made so far is an update_my_participation that
\* changed the ride mode, and a match of the participant is CANCELED.
C22_Witness ==
    /\ budget = MaxJoinedOps - 1 /\ AllIdle
    /\ outcome = UpdateOutcome("ok")
    /\ \E j \in DOMAIN matches : matches[j].status = "CANCELED"

MatchOutcome(r) == [op |-> "update_match", res |-> r]

\* C23: the step that commits an update_match_status(ACCEPTED) sets the
\* status of the addressed match and leaves every other match, every
\* participant and the event as they were; and an update_match_status to
\* REJECTED or CANCELED by an authorized user on an existing match commits
\* in its first step, without reading the participants or counting seats
\* (whatever their state), with the same frame.
C23_OnlyAddressedMatchChanges ==
    [][/\ \A t \in Txns :
            (/\ outcome' = MatchOutcome("ok")
             /\ tx[t].op = "update_match" /\ tx'[t] = IdleTx) =>
               /\ tx[t].next = "ACCEPTED"
               /\ matches' = [matches EXCEPT ![tx[t].mid].status = "ACCEPTED"]
               /\ UNCHANGED <<event, parts>>
       /\ \A t \in Txns, m \in MatchIds, u \in Users,
             n \in {"REJECTED", "CANCELED"} :
            (/\ outcome'.op = "update_match"
             /\ tx[t].op = "idle"
             /\ m \in DOMAIN matches
             /\ Allowed(parts, matches[m], u)
             /\ UmsLockMatch(t, m, u, n)) =>
               /\ outcome' = MatchOutcome("ok")
               /\ tx'[t] = IdleTx
               /\ matches' = [matches EXCEPT ![m].status = n]
               /\ UNCHANGED <<event, parts>>
       /\ outcome' = MatchOutcome("ok") =>
             /\ UNCHANGED <<event, parts>>
             /\ DOMAIN matches' = DOMAIN matches
             /\ Cardinality({j \in DOMAIN matches : matches'[j] # matches[j]}) <= 1
      ]_vars

\* C23 witness: a match has just been accepted, and another match of the same
\* driver or rider is still PROPOSED.
C23_Witness ==
    /\ outcome = MatchOutcome("ok")
    /\ \E j, k \in DOMAIN matches :
          /\ j # k
          /\ matches[j].status = "ACCEPTED"
          /\ matches[k].status = "PROPOSED"
          /\ \/ matches[k].driver = matches[j].driver
             \/ matches[k].rider = matches[j].rider

CreateOutcome(r) == [op |-> "create_match", res |-> r]

ProposedOf(d) ==
    Cardinality({j \in DOMAIN matches :
                    matches[j].driver = d /\ matches[j].status = "PROPOSED"})

\* C24: the step that commits a create_match appends one match, PROPOSED,
\* between the driver and the rider of the call and with the caller as
\* created_by, and changes no other match, no participant and not the event,
\* so that no driver's ACCEPTED count changes; and the seat count of a
\* create_match ends with Capacity exactly when the driver's ACCEPTED matches
\* are at least seats_offered, however many PROPOSED matches the driver has.
C24_ProposalReservesNoSeat ==
    [][\A t \in Txns :
          /\ (tx[t].op = "create_match" /\ outcome' = CreateOutcome("ok")
                 /\ tx'[t] = IdleTx) =>
                /\ Len(matches') = Len(matches) + 1
                /\ \A j \in DOMAIN matches : matches'[j] = matches[j]
                /\ matches'[Len(matches')].status = "PROPOSED"
                /\ matches'[Len(matches')].driver = tx[t].pid
                /\ matches'[Len(matches')].rider = tx[t].rid
                /\ \A u \in Users :
                      CmInsert(t, u) => matches'[Len(matches')].created_by = u
                /\ UNCHANGED <<event, parts>>
                /\ \A d \in DOMAIN parts :
                      Cardinality({j \in DOMAIN matches' :
                                      /\ matches'[j].driver = d
                                      /\ matches'[j].status = "ACCEPTED"})
                         = AcceptedOf(d)
          /\ (/\ tx[t].op = "create_match" /\ tx[t].pc = "count"
              /\ tx'[t] # tx[t] /\ outcome'.res # "Deadlock") =>
                IF AcceptedOf(tx[t].pid) >= parts[tx[t].pid].seats_offered
                THEN outcome' = CreateOutcome("Capacity") /\ matches' = matches
                ELSE tx'[t].pc = "flush"
          /\ (tx[t].op = "create_match" /\ outcome' = CreateOutcome("Capacity")) =>
                tx[t].pc = "count"
      ]_vars

\* C24 witness: a create_match has just committed, and its driver, who offers
\* one seat, has two PROPOSED matches.
C24_Witness ==
    /\ outcome = CreateOutcome("ok")
    /\ LET d == matches[Len(matches)].driver IN
       /\ parts[d].seats_offered = 1
       /\ ProposedOf(d) = 2
       /\ AcceptedOf(d) = 0

\* C25: in no reachable state does every transaction of a set wait for a row
\* lock that another one of the set holds, and no call is ended by the
\* store's deadlock detector: each call ends with its commit or with an
\* error of its own.
C25_NoLockWaitCycle ==
    /\ \A t \in Txns : ~InWaitCycle(t)
    /\ outcome.res # "Deadlock"

\* the driver of match m is APPROVED and offers, its rider is APPROVED and
\* needs a ride, in the participant rows ps
PairingHolds(ps, m) ==
    /\ ps[m.driver].status = "APPROVED" /\ ps[m.driver].ride_mode = "OFFER"
    /\ ps[m.rider].status = "APPROVED" /\ ps[m.rider].ride_mode = "NEED"

\* C26 as stated: every ACCEPTED match references a driver that is now
\* APPROVED with ride_mode OFFER and a rider that is now APPROVED with
\* ride_mode NEED.
C26_AcceptedPairingsConsistent ==
    \A j \in DOMAIN matches :
        matches[j].status = "ACCEPTED" => PairingHolds(parts, matches[j])

\* C27: every participant with status CANCELED has ride_mode NONE and
\* seats_offered 0 and is the driver or rider of no match that is PROPOSED or
\* ACCEPTED.
C27_CanceledHoldNothing ==
    \A p \in DOMAIN parts :
        parts[p].status = "CANCELED" =>
           /\ parts[p].ride_mode = "NONE"
           /\ parts[p].seats_offered = 0
           /\ ReferencesActive(matches, p) = {}

\* C27 witness: a participant has left, a match of theirs is CANCELED, and an
\* attempt to accept that match has just been refused.
C27_Witness ==
    /\ outcome = [op |-> "update_match", res |-> "InvalidState"]
    /\ \E p \in DOMAIN parts, j \in DOMAIN matches :
          /\ parts[p].status = "CANCELED"
          /\ matches[j].status = "CANCELED"
          /\ (matches[j].driver = p \/ matches[j].rider = p)
====
